---------------------------- MODULE Spec2Model ----------------------------
(***************************************************************************)
(* Announcements endpoints of the High School Management System API        *)
(* (src/backend/routers/announcements.py) as a state machine.              *)
(*                                                                         *)
(* State: the announcements collection (documents in insertion order),     *)
(* the wall clock read by datetime.now(), the ObjectId generator, the      *)
(* response of the request served last, and the update request that is     *)
(* between its find_one and its update_one.                                *)
(***************************************************************************)
EXTENDS Integers, Sequences, FiniteSets, TLC

VARIABLES
    announcements_collection, \* the documents, in the order find() yields them
    now,                      \* the value datetime.now() returns
    nextId,                   \* the next ObjectId insert_one assigns
    last,                     \* the response of the request served last
    deleted,                  \* history: the ids delete_one has removed
    inflight                  \* an update_announcement past find_one, before update_one

vars == <<announcements_collection, now, nextId, last, deleted, inflight>>

(***************************************************************************)
(* Bounds of the model.                                                    *)
(***************************************************************************)
MaxTime == 1       \* date texts name the instants 0..MaxTime; the clock runs one past
MaxCreated == 2    \* at most this many documents are ever inserted

(***************************************************************************)
(* Date texts.  A text is what a caller sends or a document holds; its     *)
(* form decides what datetime.fromisoformat makes of it:                   *)
(*   "iso"   YYYY-MM-DDTHH:MM:SS, the form datetime.isoformat() emits      *)
(*   "alt"   the same instant written otherwise (YYYY-MM-DD HH:MM:SS)      *)
(*   "tz"    an instant with a UTC offset (...+00:00): parses to an aware  *)
(*           datetime                                                      *)
(*   "junk"  text that is no ISO-8601 timestamp                            *)
(*   "empty" the empty string                                              *)
(*   "None"  Python's None (an omitted optional parameter, a null field)   *)
(*   "missing" the key is absent from the document                         *)
(***************************************************************************)
Text(form, t) == [form |-> form, t |-> t]
Junk == Text("junk", 0)
Empty == Text("empty", 0)
None == Text("None", 0)
Missing == Text("missing", 0)

Times == 0..MaxTime

\* The texts requests carry as expiration_date (a required string) ...
ExpirationInputs == {Text("iso", t) : t \in Times} \cup {Text("tz", 0), Junk}

\* ... and as start_date (optional: None when the caller leaves it out).
StartInputs == {Text("alt", t) : t \in 1..MaxTime} \cup {Text("tz", 0), Junk, Empty, None}

\* datetime.fromisoformat(text): a naive or an aware datetime, or an exception.
fromisoformat(text) ==
    CASE text.form \in {"iso", "alt"} -> [exc |-> "no", aware |-> FALSE, t |-> text.t]
      [] text.form = "tz"             -> [exc |-> "no", aware |-> TRUE, t |-> text.t]
      [] text.form = "None"           -> [exc |-> "TypeError", aware |-> FALSE, t |-> 0]
      [] OTHER                        -> [exc |-> "ValueError", aware |-> FALSE, t |-> 0]

Parses(text) == fromisoformat(text).exc = "no"

\* datetime.now().isoformat()
isoformat(t) == Text("iso", t)

\* Ordering a naive datetime (the clock) against a parsed one raises TypeError
\* when the parsed one is aware.
Comparable(d) == ~d.aware

(***************************************************************************)
(* Identifiers.  An id text is a 24-digit hex string or something else;    *)
(* ObjectId(text) raises on the latter, str(oid) gives the hex string.     *)
(***************************************************************************)
IdText(hex, n) == [hex |-> hex, n |-> n]
str(oid) == IdText(TRUE, oid)
ValidObjectId(text) == text.hex
ObjectId(text) == text.n
IdTexts == {str(i) : i \in 1..MaxCreated} \cup {IdText(FALSE, 0)}

(***************************************************************************)
(* Principals and messages.                                                *)
(***************************************************************************)
teachers_collection == {"teacher"}
Usernames == {"teacher", "stranger"}
Messages == {"m1", "m2"}

\* Mutant: the lookup answers for every username.
find_teacher_any(username) == TRUE

find_teacher(username) == username \in teachers_collection

(***************************************************************************)
(* Documents.                                                              *)
(***************************************************************************)
Ids(coll) == {coll[i]._id : i \in 1..Len(coll)}

find_one(coll, oid) == {i \in 1..Len(coll) : coll[i]._id = oid}

\* The dictionary a reader gets: line 45 / 63 turn _id into its text.
Json(doc) == [doc EXCEPT !._id = str(doc._id)]

(***************************************************************************)
(* is_announcement_active: "True", "False", or the exception it raises.    *)
(***************************************************************************)
is_announcement_active(announcement, clock) ==
    LET expText == IF announcement.expiration_date = Missing
                   THEN Empty ELSE announcement.expiration_date
        expiration == fromisoformat(expText)
        hasStart == announcement.start_date.form \notin {"missing", "None", "empty"}
        start == fromisoformat(announcement.start_date)
    IN  IF expiration.exc # "no" THEN expiration.exc
        ELSE IF ~Comparable(expiration) THEN "TypeError"
        ELSE IF clock > expiration.t THEN "False"
        ELSE IF ~hasStart THEN "True"
        ELSE IF start.exc # "no" THEN start.exc
        ELSE IF ~Comparable(start) THEN "TypeError"
        ELSE IF clock < start.t THEN "False"
        ELSE "True"

Raised(coll, clock) ==
    {i \in 1..Len(coll) : is_announcement_active(coll[i], clock) \notin {"True", "False"}}

FirstRaised(coll, clock) ==
    LET i == CHOOSE k \in Raised(coll, clock) : \A j \in Raised(coll, clock) : k <= j
    IN  is_announcement_active(coll[i], clock)

Response(op, username, id, err, result) ==
    [op |-> op, username |-> username, id |-> id, err |-> err, result |-> result]

NoId == IdText(FALSE, 0)

(***************************************************************************)
(* The date checks create_announcement and update_announcement share       *)
(* (lines 83-105 and 149-171): "ok", the HTTPException's detail, or the    *)
(* exception that escapes the handler.                                     *)
(***************************************************************************)
\* Mutant: the start date's format is checked before the expiration date.
ValidateDates_StartFirst(expiration_date, start_date, clock) ==
    LET exp_date == fromisoformat(expiration_date)
        truthy == start_date.form \notin {"None", "empty"}
    IN  IF truthy /\ fromisoformat(start_date).exc = "ValueError"
             THEN "Invalid start date format"
        ELSE IF exp_date.exc = "ValueError" THEN "Invalid expiration date format"
        ELSE IF ~Comparable(exp_date) THEN "TypeError"
        ELSE IF exp_date.t <= clock THEN "Expiration date must be in the future"
        ELSE "ok"

ValidateDates(expiration_date, start_date, clock) ==
    LET exp_date == fromisoformat(expiration_date)
        truthy == start_date.form \notin {"None", "empty"}
    IN  IF exp_date.exc = "ValueError" THEN "Invalid expiration date format"
        ELSE IF exp_date.exc # "no" THEN exp_date.exc
        ELSE IF ~Comparable(exp_date) THEN "TypeError"
        ELSE IF exp_date.t <= clock THEN "Expiration date must be in the future"
        ELSE IF truthy /\ fromisoformat(start_date).exc = "ValueError"
             THEN "Invalid start date format"
        ELSE IF truthy /\ fromisoformat(start_date).exc # "no"
             THEN fromisoformat(start_date).exc
        ELSE "ok"

\* Lines 108-114: the document create_announcement inserts.
NewDocument(oid, message, expiration_date, username, start_date, clock) ==
    [_id |-> oid, message |-> message, start_date |-> start_date,
     expiration_date |-> expiration_date, created_by |-> username,
     created_at |-> isoformat(clock), updated_by |-> "", updated_at |-> Missing]

insert_one(coll, doc) == Append(coll, doc)

\* Mutant: the dates are parsed and written back re-serialised.
update_one_reserialised(coll, oid, message, expiration_date, username, start_date, clock) ==
    LET again(text) == IF Parses(text) THEN isoformat(fromisoformat(text).t) ELSE text
    IN  [i \in 1..Len(coll) |->
            IF coll[i]._id = oid
            THEN [coll[i] EXCEPT !.message = message, !.start_date = again(start_date),
                                 !.expiration_date = again(expiration_date),
                                 !.updated_by = username,
                                 !.updated_at = isoformat(clock)]
            ELSE coll[i]]

\* Lines 174-185: $set of the five fields on every document the filter matches
\* (at most one: _id is unique); no match changes nothing.
update_one(coll, oid, message, expiration_date, username, start_date, clock) ==
    [i \in 1..Len(coll) |->
        IF coll[i]._id = oid
        THEN [coll[i] EXCEPT !.message = message, !.start_date = start_date,
                             !.expiration_date = expiration_date,
                             !.updated_by = username,
                             !.updated_at = isoformat(clock)]
        ELSE coll[i]]

\* Mutant: the filter is lost and every document goes.
delete_one_unfiltered(coll, oid) == << >>

\* Line 204: delete_one removes the document the filter matches.
delete_one(coll, oid) == SelectSeq(coll, LAMBDA doc : doc._id # oid)

NoRequest == [active |-> FALSE, id |-> NoId, message |-> "", expiration_date |-> None,
              username |-> "", start_date |-> None]

(***************************************************************************)
(* GET /announcements/active                                               *)
(***************************************************************************)
ActiveAnnouncements(coll, clock) ==
    LET kept == SelectSeq(coll, LAMBDA doc : is_announcement_active(doc, clock) = "True")
    IN  [i \in 1..Len(kept) |-> Json(kept[i])]

get_active_announcements ==
    /\ last' = IF Raised(announcements_collection, now) # {}
               THEN Response("get_active", "", NoId,
                             FirstRaised(announcements_collection, now), <<>>)
               ELSE Response("get_active", "", NoId, "ok",
                             ActiveAnnouncements(announcements_collection, now))
    /\ UNCHANGED <<announcements_collection, now, nextId, deleted, inflight>>

(***************************************************************************)
(* GET /announcements                                                      *)
(***************************************************************************)
AllAnnouncements(coll, clock) ==
    [i \in 1..Len(coll) |->
        [doc |-> Json(coll[i]),
         is_active |-> is_announcement_active(coll[i], clock) = "True"]]

get_all_announcements(username) ==
    /\ last' = IF ~find_teacher(username)
               THEN Response("get_all", username, NoId, "Unauthorized", <<>>)
               ELSE IF Raised(announcements_collection, now) # {}
               THEN Response("get_all", username, NoId,
                             FirstRaised(announcements_collection, now), <<>>)
               ELSE Response("get_all", username, NoId, "ok",
                             AllAnnouncements(announcements_collection, now))
    /\ UNCHANGED <<announcements_collection, now, nextId, deleted, inflight>>

(***************************************************************************)
(* POST /announcements                                                     *)
(***************************************************************************)
CreateOutcome(expiration_date, username, start_date, clock) ==
    IF ~find_teacher(username) THEN "Unauthorized"
    ELSE ValidateDates(expiration_date, start_date, clock)

create_announcement(message, expiration_date, username, start_date) ==
    LET err == CreateOutcome(expiration_date, username, start_date, now)
        doc == NewDocument(nextId, message, expiration_date, username, start_date, now)
    IN  IF err # "ok"
        THEN /\ last' = Response("create", username, NoId, err, <<>>)
             /\ UNCHANGED <<announcements_collection, now, nextId, deleted, inflight>>
        ELSE /\ nextId <= MaxCreated
             /\ announcements_collection' = insert_one(announcements_collection, doc)
             /\ nextId' = nextId + 1
             /\ last' = Response("create", username, str(nextId), "ok", <<Json(doc)>>)
             /\ UNCHANGED <<now, deleted, inflight>>

(***************************************************************************)
(* PUT /announcements/{announcement_id}                                    *)
(***************************************************************************)
\* Mutant: the dates are validated before the id is looked at.
UpdateOutcome_DatesFirst(coll, announcement_id, expiration_date, username, start_date, clock) ==
    IF ~find_teacher(username) THEN "Unauthorized"
    ELSE IF ValidateDates(expiration_date, start_date, clock) # "ok"
         THEN ValidateDates(expiration_date, start_date, clock)
    ELSE IF ~ValidObjectId(announcement_id) THEN "Invalid announcement ID"
    ELSE IF find_one(coll, ObjectId(announcement_id)) = {} THEN "Announcement not found"
    ELSE "ok"

\* Lines 134-171: every check update_announcement makes before it writes.
UpdateOutcome(coll, announcement_id, expiration_date, username, start_date, clock) ==
    IF ~find_teacher(username) THEN "Unauthorized"
    ELSE IF ~ValidObjectId(announcement_id) THEN "Invalid announcement ID"
    ELSE IF find_one(coll, ObjectId(announcement_id)) = {} THEN "Announcement not found"
    ELSE ValidateDates(expiration_date, start_date, clock)

\* The handler served with no other request between its store calls.
update_announcement(announcement_id, message, expiration_date, username, start_date) ==
    LET err == UpdateOutcome(announcements_collection, announcement_id,
                             expiration_date, username, start_date, now)
    IN  /\ ~inflight.active
        /\ last' = Response("update", username, announcement_id, err, <<>>)
        /\ announcements_collection' =
               IF err = "ok"
               THEN update_one(announcements_collection, ObjectId(announcement_id),
                               message, expiration_date, username, start_date, now)
               ELSE announcements_collection
        /\ UNCHANGED <<now, nextId, deleted, inflight>>

\* Lines 134-171 of a handler that other requests run beside: the checks, up to
\* and including find_one.
update_begin(announcement_id, message, expiration_date, username, start_date) ==
    LET err == UpdateOutcome(announcements_collection, announcement_id,
                             expiration_date, username, start_date, now)
    IN  /\ ~inflight.active
        /\ IF err = "ok"
           THEN /\ inflight' = [active |-> TRUE, id |-> announcement_id,
                                message |-> message,
                                expiration_date |-> expiration_date,
                                username |-> username, start_date |-> start_date]
                /\ UNCHANGED last
           ELSE /\ last' = Response("update", username, announcement_id, err, <<>>)
                /\ UNCHANGED inflight
        /\ UNCHANGED <<announcements_collection, now, nextId, deleted>>

\* Lines 173-187 of that handler: update_one, whose result is not looked at, and
\* the success message.
update_finish ==
    /\ inflight.active
    /\ announcements_collection' =
           update_one(announcements_collection, ObjectId(inflight.id), inflight.message,
                      inflight.expiration_date, inflight.username,
                      inflight.start_date, now)
    /\ last' = Response("update", inflight.username, inflight.id, "ok", <<>>)
    /\ inflight' = NoRequest
    /\ UNCHANGED <<now, nextId, deleted>>

(***************************************************************************)
(* DELETE /announcements/{announcement_id}                                 *)
(***************************************************************************)
DeleteOutcome(coll, announcement_id, username) ==
    IF ~find_teacher(username) THEN "Unauthorized"
    ELSE IF ~ValidObjectId(announcement_id) THEN "Invalid announcement ID"
    ELSE IF find_one(coll, ObjectId(announcement_id)) = {} THEN "Announcement not found"
    ELSE "ok"

delete_announcement(announcement_id, username) ==
    LET err == DeleteOutcome(announcements_collection, announcement_id, username)
    IN  /\ last' = Response("delete", username, announcement_id, err, <<>>)
        /\ announcements_collection' =
               IF err = "ok"
               THEN delete_one(announcements_collection, ObjectId(announcement_id))
               ELSE announcements_collection
        /\ deleted' = IF err = "ok"
                      THEN deleted \cup {ObjectId(announcement_id)} ELSE deleted
        /\ UNCHANGED <<now, nextId, inflight>>

(***************************************************************************)
(* The wall clock moves forward.                                           *)
(***************************************************************************)
Tick ==
    /\ now <= MaxTime
    /\ now' = now + 1
    /\ UNCHANGED <<announcements_collection, nextId, last, deleted, inflight>>

(***************************************************************************)
(* Specifications.                                                         *)
(***************************************************************************)
Init ==
    /\ announcements_collection = << >>
    /\ now = 0
    /\ nextId = 1
    /\ last = Response("none", "", NoId, "ok", <<>>)
    /\ deleted = {}
    /\ inflight = NoRequest

Create ==
    \E m \in Messages, e \in ExpirationInputs, u \in Usernames, s \in StartInputs :
        create_announcement(m, e, u, s)

Update ==
    \E id \in IdTexts, m \in Messages, e \in ExpirationInputs, u \in Usernames,
       s \in StartInputs :
        update_announcement(id, m, e, u, s)

Delete == \E id \in IdTexts, u \in Usernames : delete_announcement(id, u)

GetAll == \E u \in Usernames : get_all_announcements(u)

Next == Create \/ Update \/ Delete \/ get_active_announcements \/ GetAll \/ Tick

\* Requests served one at a time, from an empty collection.
Spec == Init /\ [][Next]_vars

\* The collection already holds a document this module did not write: find()
\* yields whatever the collection holds, and line 23 reads expiration_date with
\* a default for documents that lack it.
LegacyDocuments ==
    {[_id |-> 1, message |-> "m1", start_date |-> None, expiration_date |-> e,
      created_by |-> "teacher", created_at |-> isoformat(0), updated_by |-> "",
      updated_at |-> Missing] : e \in {Missing, Empty, Junk}}

InitSeeded ==
    /\ announcements_collection \in {<<doc>> : doc \in LegacyDocuments}
    /\ now = 0
    /\ nextId = 2
    /\ last = Response("none", "", NoId, "ok", <<>>)
    /\ deleted = {}
    /\ inflight = NoRequest

SpecSeeded == InitSeeded /\ [][Next]_vars

\* Requests served by a thread pool: an update_announcement runs beside the
\* other handlers, which may act between its find_one and its update_one.  The
\* interleavings are those of one clock reading.
UpdateBegin ==
    \E id \in IdTexts, m \in Messages, e \in ExpirationInputs, u \in Usernames,
       s \in StartInputs :
        update_begin(id, m, e, u, s)

NextConc == Create \/ UpdateBegin \/ update_finish \/ Delete

SpecConc == Init /\ [][NextConc]_vars

(***************************************************************************)
(* Vocabulary of the claims.                                               *)
(***************************************************************************)
Instant(text) == fromisoformat(text).t
Absent(text) == text \in {Missing, None, Empty}
DatesParse(doc) ==
    /\ Parses(doc.expiration_date)
    /\ Absent(doc.start_date) \/ Parses(doc.start_date)
Naive(text) == Parses(text) /\ ~fromisoformat(text).aware
WellFormed(doc) ==
    /\ Naive(doc.expiration_date)
    /\ Absent(doc.start_date) \/ Naive(doc.start_date)
BadExpiration(doc) == ~Parses(doc.expiration_date)
HasDocument(coll, id) == ValidObjectId(id) /\ ObjectId(id) \in Ids(coll)
Returned(resp) == {resp.result[i] : i \in 1..Len(resp.result)}

InvalidDateFormat == {"Invalid expiration date format", "Invalid start date format"}
ExpirationInPast == "Expiration date must be in the future"
Unauthorized == "Unauthorized"
InvalidId == "Invalid announcement ID"
NotFound == "Announcement not found"

(***************************************************************************)
(* C1.  For every stored announcement whose dates parse and every clock    *)
(* value, get_active_announcements returns the record exactly when the     *)
(* clock is not after expiration_date and start_date is absent, empty or   *)
(* not after the clock (both bounds inclusive); the records come in the    *)
(* store's order.                                                          *)
(***************************************************************************)
ActiveWindow(doc, clock) ==
    /\ ~(clock > Instant(doc.expiration_date))
    /\ Absent(doc.start_date) \/ ~(clock < Instant(doc.start_date))

C1_ActiveWindow ==
    [][get_active_announcements
       /\ (\A i \in 1..Len(announcements_collection) :
              DatesParse(announcements_collection[i]))
       => /\ last'.err = "ok"
          /\ LET kept == SelectSeq(announcements_collection,
                                   LAMBDA doc : ActiveWindow(doc, now))
             IN  last'.result = [i \in 1..Len(kept) |-> Json(kept[i])]]_vars

(***************************************************************************)
(* C2.  A stored announcement whose expiration_date is missing, empty or   *)
(* unparseable does not make a read fail: get_active_announcements answers *)
(* without it and get_all_announcements answers with it marked inactive.   *)
(***************************************************************************)
C2_BadExpirationIsInactive ==
    [][(get_active_announcements
           \/ \E u \in teachers_collection : get_all_announcements(u))
       /\ (\A i \in 1..Len(announcements_collection) :
              \/ BadExpiration(announcements_collection[i])
              \/ WellFormed(announcements_collection[i]))
       => /\ last'.err = "ok"
          /\ \A i \in 1..Len(announcements_collection) :
                LET doc == announcements_collection[i]
                IN  BadExpiration(doc) =>
                       IF last'.op = "get_active"
                       THEN Json(doc) \notin Returned(last')
                       ELSE [doc |-> Json(doc), is_active |-> FALSE] \in Returned(last')]_vars

(***************************************************************************)
(* C3.  A known caller's create_announcement, or update_announcement of an *)
(* existing id, with a parseable expiration_date equal to or earlier than  *)
(* the clock fails with ExpirationInPast and leaves the store as it was.   *)
(***************************************************************************)
C3_ExpirationInPast ==
    [][\A id \in IdTexts, m \in Messages, e \in ExpirationInputs,
          u \in teachers_collection, s \in StartInputs :
          (\/ create_announcement(m, e, u, s)
           \/ (HasDocument(announcements_collection, id)
               /\ update_announcement(id, m, e, u, s)))
          /\ Parses(e) /\ Instant(e) <= now
          => /\ last'.err = ExpirationInPast
             /\ announcements_collection' = announcements_collection]_vars

(***************************************************************************)
(* C4 as stated.  A supplied start_date (non-null, the empty string        *)
(* included) that does not parse makes create_announcement and             *)
(* update_announcement fail with InvalidDateFormat and write nothing, even *)
(* when the expiration_date is parseable but not in the future.            *)
(***************************************************************************)
C4_StartFormatFirst ==
    [][\A id \in IdTexts, m \in Messages, e \in ExpirationInputs,
          u \in teachers_collection, s \in StartInputs :
          (\/ create_announcement(m, e, u, s)
           \/ (HasDocument(announcements_collection, id)
               /\ update_announcement(id, m, e, u, s)))
          /\ s # None /\ ~Parses(s)
          => /\ last'.err \in InvalidDateFormat
             /\ announcements_collection' = announcements_collection]_vars

(***************************************************************************)
(* C4 amended.  A non-empty start_date that does not parse makes the       *)
(* request fail and write nothing; the expiration_date is checked first,   *)
(* so the failure is the start date's InvalidDateFormat exactly when the   *)
(* expiration_date passed its own checks, the expiration's                 *)
(* InvalidDateFormat when that does not parse, and ExpirationInPast when   *)
(* it parses to a naive instant not after the clock.  An empty-string      *)
(* start_date is taken as not supplied: it is not rejected.                *)
(***************************************************************************)
StartFormatOutcome(e, s, err, clock) ==
    /\ (s \notin {None, Empty} /\ ~Parses(s))
          => /\ err # "ok"
             /\ (Naive(e) /\ Instant(e) > clock) <=> err = "Invalid start date format"
             /\ ~Parses(e) => err = "Invalid expiration date format"
             /\ (Naive(e) /\ Instant(e) <= clock) => err = ExpirationInPast
    /\ (s = Empty /\ Naive(e) /\ Instant(e) > clock) => err = "ok"

\* C4 amended: every create/update check outcome follows StartFormatOutcome, and
\* a failed create or update writes nothing.
C4_StartFormatAfterExpiration ==
    /\ [](\A id \in IdTexts, e \in ExpirationInputs, u \in teachers_collection,
            s \in StartInputs :
            /\ StartFormatOutcome(e, s, CreateOutcome(e, u, s, now), now)
            /\ HasDocument(announcements_collection, id)
                  => StartFormatOutcome(e, s,
                         UpdateOutcome(announcements_collection, id, e, u, s, now), now))
    /\ [][last'.op \in {"create", "update"} /\ last'.err # "ok"
            => announcements_collection' = announcements_collection]_vars

\* C4: a request was refused for its start date's format.
C4_Witness ==
    /\ last.op \in {"create", "update"}
    /\ last.err = "Invalid start date format"

(***************************************************************************)
(* C5.  update_announcement reports one failure, chosen in the order       *)
(* Unauthorized, InvalidId, NotFound, then the date failures: a malformed  *)
(* id from a known caller gives InvalidId and a well-formed id with no     *)
(* record gives NotFound, whatever the dates are.                          *)
(***************************************************************************)
\* The step served a request `op` (every request leaves the clock alone).
Served(op) == last'.op = op /\ now' = now

C5_UpdateFailureOrder ==
    [][Served("update")
       => IF last'.username \notin teachers_collection THEN last'.err = Unauthorized
          ELSE IF ~ValidObjectId(last'.id) THEN last'.err = InvalidId
          ELSE IF ObjectId(last'.id) \notin Ids(announcements_collection)
               THEN last'.err = NotFound
          ELSE last'.err \notin {Unauthorized, InvalidId, NotFound}]_vars

\* C5: a known caller's update of a malformed id was answered InvalidId.
C5_Witness ==
    /\ last.op = "update"
    /\ last.username \in teachers_collection
    /\ ~ValidObjectId(last.id)
    /\ last.err = InvalidId
    /\ announcements_collection # << >>

(***************************************************************************)
(* C6.  A successful update_announcement(id, ...) changes only the record  *)
(* with that id, and of it only message, start_date, expiration_date,      *)
(* updated_by and updated_at; the dates are stored as the caller's text;   *)
(* no step changes the _id, created_by or created_at of a stored record.   *)
(***************************************************************************)
C6_UpdateFrame ==
    [][/\ (Served("update") /\ last'.err = "ok")
          => /\ Len(announcements_collection') = Len(announcements_collection)
             /\ \A i \in 1..Len(announcements_collection) :
                   LET old == announcements_collection[i]
                       new == announcements_collection'[i]
                   IN  IF old._id # ObjectId(last'.id) THEN new = old
                       ELSE \A m \in Messages, e \in ExpirationInputs,
                               s \in StartInputs :
                               update_announcement(last'.id, m, e, last'.username, s)
                               => new = [old EXCEPT !.message = m,
                                                    !.start_date = s,
                                                    !.expiration_date = e,
                                                    !.updated_by = last'.username,
                                                    !.updated_at = isoformat(now)]
       /\ \A i \in 1..Len(announcements_collection),
             j \in 1..Len(announcements_collection') :
             announcements_collection[i]._id = announcements_collection'[j]._id
             => /\ announcements_collection'[j].created_by
                      = announcements_collection[i].created_by
                /\ announcements_collection'[j].created_at
                      = announcements_collection[i].created_at]_vars

\* C6: one of two records was updated (new message, start_date in the caller's
\* spelling); the other was not.
C6_Witness ==
    /\ last.op = "update" /\ last.err = "ok"
    /\ Len(announcements_collection) = 2
    /\ \E i, j \in 1..2 :
          /\ announcements_collection[i]._id = ObjectId(last.id)
          /\ announcements_collection[i].updated_at # Missing
          /\ announcements_collection[i].start_date.form = "alt"
          /\ announcements_collection[i].message = "m2"
          /\ announcements_collection[j].updated_at = Missing
          /\ announcements_collection[j].message = "m1"

(***************************************************************************)
(* C7.  A successful delete_announcement removes that record and no other; *)
(* the record is in no later read, and a known caller's later delete or    *)
(* update of the same id fails with NotFound (no caller's succeeds).       *)
(***************************************************************************)
ReturnedIds(resp) ==
    IF resp.op = "get_active" THEN {resp.result[i]._id : i \in 1..Len(resp.result)}
    ELSE IF resp.op = "get_all" THEN {resp.result[i].doc._id : i \in 1..Len(resp.result)}
    ELSE {}

C7_HardDelete ==
    [][/\ (Served("delete") /\ last'.err = "ok")
          => /\ announcements_collection' =
                   SelectSeq(announcements_collection,
                             LAMBDA doc : doc._id # ObjectId(last'.id))
             /\ Len(announcements_collection') = Len(announcements_collection) - 1
             /\ ObjectId(last'.id) \in deleted'
       /\ \A d \in deleted' :
             /\ d \notin Ids(announcements_collection')
             /\ str(d) \notin ReturnedIds(last')
       /\ ((Served("delete") \/ Served("update"))
           /\ ValidObjectId(last'.id) /\ ObjectId(last'.id) \in deleted)
          => /\ last'.err # "ok"
             /\ last'.username \in teachers_collection => last'.err = NotFound]_vars

\* C7: a known caller's delete or update of a deleted id was answered NotFound
\* while another record is still stored.
C7_Witness ==
    /\ last.op \in {"delete", "update"}
    /\ last.err = NotFound
    /\ ValidObjectId(last.id) /\ ObjectId(last.id) \in deleted
    /\ Len(announcements_collection) = 1

(***************************************************************************)
(* C8.  While a created record is neither updated nor deleted and the      *)
(* clock only moves forward: created without start_date, it is in          *)
(* get_active_announcements at once; created with a start_date later than  *)
(* the clock, it is left out until the clock reaches start_date, is in     *)
(* while the clock is not past expiration_date, and is out for good once   *)
(* the clock is past expiration_date.                                      *)
(***************************************************************************)
Included(doc, resp) == resp.err = "ok" /\ Json(doc) \in Returned(resp)

C8_VisibilityAfterCreate ==
    [][get_active_announcements
       => \A i \in 1..Len(announcements_collection) :
             LET doc == announcements_collection[i]
                 created == Instant(doc.created_at)
             IN  doc.updated_at = Missing
                 => /\ (doc.start_date = None /\ now = created)
                       => Included(doc, last')
                    /\ (Parses(doc.start_date) /\ Instant(doc.start_date) > created)
                       => /\ now < Instant(doc.start_date) => ~Included(doc, last')
                          /\ (Instant(doc.start_date) <= now
                              /\ now <= Instant(doc.expiration_date))
                             => Included(doc, last')
                          /\ now > Instant(doc.expiration_date)
                             => ~Included(doc, last')]_vars

(***************************************************************************)
(* C9.  get_all_announcements, create_announcement, update_announcement    *)
(* and delete_announcement from a caller who is not in the principal store *)
(* fail with Unauthorized, whatever else the request holds, and leave the  *)
(* store unchanged; get_active_announcements asks for no caller.           *)
(***************************************************************************)
C9_UnauthorizedFirst ==
    [][/\ (now' = now
           /\ last'.op \in {"get_all", "create", "update", "delete"}
           /\ last'.username \notin teachers_collection)
          => /\ last'.err = Unauthorized
             /\ announcements_collection' = announcements_collection
       /\ Served("get_active") => last'.err # Unauthorized]_vars

\* C9: an unknown caller's update of an existing id was answered Unauthorized.
C9_Witness ==
    /\ last.op = "update"
    /\ last.username \notin teachers_collection
    /\ HasDocument(announcements_collection, last.id)
    /\ last.err = Unauthorized

(***************************************************************************)
(* C10.  Under any interleaving with delete_announcement for the same id,  *)
(* update_announcement answers with its success marker only if its values  *)
(* were written to a record that is in the store.                          *)
(***************************************************************************)
C10_UpdateAllOrNothing ==
    [][update_finish
       => \E i \in 1..Len(announcements_collection') :
             LET doc == announcements_collection'[i]
             IN  /\ doc._id = ObjectId(inflight.id)
                 /\ doc.message = inflight.message
                 /\ doc.expiration_date = inflight.expiration_date
                 /\ doc.start_date = inflight.start_date]_vars

=============================================================================
